---------------------------- MODULE Spec2Model ----------------------------
(***************************************************************************)
(* A model of rapid-dev-proxy: the host-resolution engine                  *)
(* (ConfigManager.get_route), the request handler                          *)
(* (ProxyServer._handle_proxy_request) and the counting middleware         *)
(* (log_requests).                                                         *)
(*                                                                         *)
(* Python strings that the code inspects character by character (hosts,    *)
(* paths, aliases, table keys) are sequences of one-character strings.     *)
(* Dictionary keys the code only compares for equality (header names,      *)
(* query keys) are TLA+ strings.  A Python dict is a sequence of           *)
(* <<key, value>> pairs with distinct keys, in insertion order.            *)
(***************************************************************************)
EXTENDS Integers, Sequences, FiniteSets, TLC

\* ------------------------------------------------------------------------
\* Python str operations used by the code
\* ------------------------------------------------------------------------

UpperLetters == <<"A","B","C","D","E","F","G","H","I","J","K","L","M",
                  "N","O","P","Q","R","S","T","U","V","W","X","Y","Z">>

LowerLetters == <<"a","b","c","d","e","f","g","h","i","j","k","l","m",
                  "n","o","p","q","r","s","t","u","v","w","x","y","z">>

\* str.lower() on one character.
LowerChar(c) ==
    IF \E i \in 1..Len(UpperLetters) : UpperLetters[i] = c
    THEN LowerLetters[CHOOSE i \in 1..Len(UpperLetters) : UpperLetters[i] = c]
    ELSE c

\* str.lower()
Lower(s) == [i \in 1..Len(s) |-> LowerChar(s[i])]

\* The characters str.strip() removes.
IsSpace(c) == c \in {" ", "\t", "\n", "\r"}

RECURSIVE LStrip(_)
LStrip(s) ==
    IF s # <<>> /\ IsSpace(Head(s)) THEN LStrip(Tail(s)) ELSE s

RECURSIVE RStrip(_)
RStrip(s) ==
    IF s # <<>> /\ IsSpace(s[Len(s)]) THEN RStrip(SubSeq(s, 1, Len(s) - 1)) ELSE s

\* str.strip()
Strip(s) == RStrip(LStrip(s))

\* str.startswith(p)
StartsWith(s, p) == Len(p) <= Len(s) /\ SubSeq(s, 1, Len(p)) = p

\* str.endswith(p)
EndsWith(s, p) ==
    Len(p) <= Len(s) /\ SubSeq(s, Len(s) - Len(p) + 1, Len(s)) = p

\* str.find(c): the 1-based index of the first c in s, 0 when there is none.
Find(s, c) ==
    IF \E i \in 1..Len(s) : s[i] = c
    THEN CHOOSE i \in 1..Len(s) : s[i] = c /\ \A j \in 1..(i - 1) : s[j] # c
    ELSE 0

\* str.split(c, maxsplit): at most maxsplit splits, hence at most
\* maxsplit + 1 parts; a maxsplit of -1 splits at every c.
RECURSIVE Split(_, _, _)
Split(s, c, maxsplit) ==
    IF maxsplit = 0 \/ Find(s, c) = 0
    THEN <<s>>
    ELSE <<SubSeq(s, 1, Find(s, c) - 1)>>
         \o Split(SubSeq(s, Find(s, c) + 1, Len(s)), c,
                  IF maxsplit < 0 THEN maxsplit ELSE maxsplit - 1)

\* str.rstrip(c)
RECURSIVE RStripChar(_, _)
RStripChar(s, c) ==
    IF s # <<>> /\ s[Len(s)] = c
    THEN RStripChar(SubSeq(s, 1, Len(s) - 1), c)
    ELSE s

\* dict.get(key, default) / Mapping.get on a sequence of <<key, value>>
\* pairs: the value of the first pair with that key.
HasKey(d, k) == \E i \in 1..Len(d) : d[i][1] = k

DictGet(d, k, default) ==
    IF HasKey(d, k)
    THEN d[CHOOSE i \in 1..Len(d) : d[i][1] = k /\ \A j \in 1..(i - 1) : d[j][1] # k][2]
    ELSE default

\* dict.pop(key, None): the dict without that key.
RECURSIVE DictPop(_, _)
DictPop(d, k) ==
    IF d = <<>> THEN <<>>
    ELSE IF Head(d)[1] = k THEN DictPop(Tail(d), k)
    ELSE <<Head(d)>> \o DictPop(Tail(d), k)

\* d[key] = value: replaces the value in place when the key is present,
\* appends the pair otherwise.
DictSet(d, k, v) ==
    IF HasKey(d, k)
    THEN [i \in 1..Len(d) |-> IF d[i][1] = k THEN <<k, v>> ELSE d[i]]
    ELSE Append(d, <<k, v>>)

\* dict(mapping) for a multi-valued mapping given as a list of pairs in
\* which a key may repeat: one pair per distinct key, in order of first
\* appearance, with the value mapping[key].
RECURSIVE DictKeys(_)
DictKeys(items) ==
    IF items = <<>> THEN <<>>
    ELSE <<Head(items)[1]>>
         \o DictKeys(SelectSeq(Tail(items), LAMBDA p : p[1] # Head(items)[1]))


\* request.query_params.get(key): Starlette keeps the last value of a
\* repeated key; an absent key gives None, modelled as the empty string
\* (the code only tests the result for truth).
QueryGet(items, k) ==
    IF HasKey(items, k)
    THEN items[CHOOSE i \in 1..Len(items) :
                 items[i][1] = k /\ \A j \in (i + 1)..Len(items) : items[j][1] # k][2]
    ELSE <<>>

\* ------------------------------------------------------------------------
\* ConfigManager.get_route
\* ------------------------------------------------------------------------

DotLocalhost == <<".","l","o","c","a","l","h","o","s","t">>

WildcardPrefix == <<"*",".">>

\* host.split(':')[0].strip().lower()
NormalizeHostNoSplit(host) == Lower(Strip(host))

NormalizeHost(host) == Lower(Strip(Split(host, ":", -1)[1]))

\* if host.endswith('.localhost'): host = host[:-len('.localhost')]
StripLocalhostNever(host) == host

StripLocalhost(host) ==
    IF EndsWith(host, DotLocalhost)
    THEN SubSeq(host, 1, Len(host) - Len(DotLocalhost))
    ELSE host

\* The body of the alias loop for one alias: the line of the return
\* statement taken (90: exact, 92: wildcard), 0 when the alias does not match.
AliasMatchNoDot(alias, host) ==
    LET alias_norm == Lower(Strip(alias))
    IN  IF alias_norm = host THEN 90
        ELSE IF StartsWith(alias_norm, WildcardPrefix)
                /\ EndsWith(host, Tail(Tail(alias_norm))) THEN 92
        ELSE 0

AliasMatch(alias, host) ==
    LET alias_norm == Lower(Strip(alias))
    IN  IF alias_norm = host THEN 90
        ELSE IF StartsWith(alias_norm, WildcardPrefix)
                /\ EndsWith(host, Tail(alias_norm)) THEN 92
        ELSE 0

\* for domain, route in routes.items(): for alias in route.aliases: ...
\* from route i, alias j on: the first return taken, route 0 when the
\* loops run to their end.
RECURSIVE AliasScan(_, _, _, _)
AliasScan(routes, host, i, j) ==
    IF i > Len(routes) THEN [route |-> 0, line |-> 0]
    ELSE IF j > Len(routes[i].aliases) THEN AliasScan(routes, host, i + 1, 1)
    ELSE IF AliasMatch(routes[i].aliases[j], host) # 0
         THEN [route |-> i, line |-> AliasMatch(routes[i].aliases[j], host)]
    ELSE AliasScan(routes, host, i, j + 1)

\* The condition of the wildcard loop on the table's own keys.
DomainWildcardMatch(domain, host) ==
    LET domain_norm == Lower(Strip(domain))
    IN  StartsWith(domain_norm, WildcardPrefix) /\ EndsWith(host, Tail(domain_norm))

RECURSIVE WildcardScan(_, _, _)
WildcardScan(routes, host, i) ==
    IF i > Len(routes) THEN 0
    ELSE IF DomainWildcardMatch(routes[i].domain, host) THEN i
    ELSE WildcardScan(routes, host, i + 1)

\* if host in self.config.routes: the index of that key, 0 when absent.
ExactIndex(routes, host) ==
    IF \E i \in 1..Len(routes) : routes[i].domain = host
    THEN CHOOSE i \in 1..Len(routes) : routes[i].domain = host
    ELSE 0

\* get_route with the wildcard scan of the keys done before the alias scan.
GetRouteWildcardFirst(cfg, rawhost) ==
    LET host == StripLocalhost(NormalizeHost(rawhost))
        exact == ExactIndex(cfg.routes, host)
        alias == AliasScan(cfg.routes, host, 1, 1)
        wild  == WildcardScan(cfg.routes, host, 1)
    IN  IF exact # 0
        THEN [target |-> cfg.routes[exact].target, host |-> host, line |-> 82]
        ELSE IF wild # 0
        THEN [target |-> cfg.routes[wild].target, host |-> host, line |-> 98]
        ELSE IF alias.route # 0
        THEN [target |-> cfg.routes[alias.route].target, host |-> host,
              line |-> alias.line]
        ELSE [target |-> cfg.default, host |-> host, line |-> 101]

\* get_route(host): the target returned, the local variable host as it is
\* looked up, and the line of the return statement taken.  The config is
\* loaded before a ProxyServer is built (its constructor reads
\* config.security), so the load at lines 67-68 never runs here, and the
\* callers pass a str, so host is never None.
GetRoute(cfg, rawhost) ==
    LET host == StripLocalhost(NormalizeHost(rawhost))
        exact == ExactIndex(cfg.routes, host)
        alias == AliasScan(cfg.routes, host, 1, 1)
        wild  == WildcardScan(cfg.routes, host, 1)
    IN  IF exact # 0
        THEN [target |-> cfg.routes[exact].target, host |-> host, line |-> 82]
        ELSE IF alias.route # 0
        THEN [target |-> cfg.routes[alias.route].target, host |-> host,
              line |-> alias.line]
        ELSE IF wild # 0
        THEN [target |-> cfg.routes[wild].target, host |-> host, line |-> 98]
        ELSE [target |-> cfg.default, host |-> host, line |-> 101]

\* ------------------------------------------------------------------------
\* ProxyServer._handle_proxy_request: host selection (lines 93-124)
\* ------------------------------------------------------------------------

HostMarker == <<"_","_","h","o","s","t","/">>

AtMarker == <<"@">>

\* Lines 106-120, entered with effective_host still empty and a non-empty
\* path: the values of effective_host and stripped_path afterwards, and
\* the line that assigned effective_host (0: none did).
PathOverride(path) ==
    IF StartsWith(path, HostMarker)
    THEN LET parts == Split(path, "/", 2)
         IN  IF Len(parts) >= 2
             THEN [effective_host |-> parts[2],
                   stripped_path |-> IF Len(parts) > 2 THEN parts[3] ELSE <<>>,
                   line |-> 113]
             ELSE [effective_host |-> <<>>, stripped_path |-> path, line |-> 0]
    ELSE IF StartsWith(path, AtMarker)
    THEN LET at_parts == Split(Tail(path), "/", 1)
         IN  IF at_parts # <<>> /\ at_parts[1] # <<>>
             THEN [effective_host |-> at_parts[1],
                   stripped_path |-> IF Len(at_parts) > 1 THEN at_parts[2] ELSE <<>>,
                   line |-> 119]
             ELSE [effective_host |-> <<>>, stripped_path |-> path, line |-> 0]
    ELSE [effective_host |-> <<>>, stripped_path |-> path, line |-> 0]

\* Host selection with the header override looked at before the query.
ResolveHostHeaderFirst(req) ==
    LET qp == QueryGet(req.query, "_host")
        hdr == IF DictGet(req.headers, "x-rdp-host", <<>>) # <<>>
               THEN DictGet(req.headers, "x-rdp-host", <<>>)
               ELSE DictGet(req.headers, "x-host", <<>>)
        po == IF req.path # <<>>
              THEN PathOverride(req.path)
              ELSE [effective_host |-> <<>>, stripped_path |-> req.path, line |-> 0]
    IN  IF hdr # <<>>
        THEN [effective_host |-> hdr, stripped_path |-> req.path, line |-> 104]
        ELSE IF qp # <<>>
        THEN [effective_host |-> qp, stripped_path |-> req.path, line |-> 98]
        ELSE IF po.effective_host # <<>>
        THEN [effective_host |-> po.effective_host,
              stripped_path |-> po.stripped_path, line |-> po.line]
        ELSE [effective_host |-> DictGet(req.headers, "host", <<>>),
              stripped_path |-> po.stripped_path, line |-> 124]

\* Lines 93-124: effective_host and stripped_path as they stand at line
\* 126, and the line of the assignment that gave effective_host its final
\* value (98: query, 104: override header, 113 and 119: a path marker,
\* 124: the Host header).
ResolveHost(req) ==
    LET qp == QueryGet(req.query, "_host")
        hdr == IF DictGet(req.headers, "x-rdp-host", <<>>) # <<>>
               THEN DictGet(req.headers, "x-rdp-host", <<>>)
               ELSE DictGet(req.headers, "x-host", <<>>)
        po == IF req.path # <<>>
              THEN PathOverride(req.path)
              ELSE [effective_host |-> <<>>, stripped_path |-> req.path, line |-> 0]
    IN  IF qp # <<>>
        THEN [effective_host |-> qp, stripped_path |-> req.path, line |-> 98]
        ELSE IF hdr # <<>>
        THEN [effective_host |-> hdr, stripped_path |-> req.path, line |-> 104]
        ELSE IF po.effective_host # <<>>
        THEN [effective_host |-> po.effective_host,
              stripped_path |-> po.stripped_path, line |-> po.line]
        ELSE [effective_host |-> DictGet(req.headers, "host", <<>>),
              stripped_path |-> po.stripped_path, line |-> 124]

\* ------------------------------------------------------------------------
\* ProxyServer._handle_proxy_request: the headers sent upstream (140-150)
\* ------------------------------------------------------------------------

\* dict(request.headers): Starlette's Headers gives, for a name that
\* repeats, the first value.
DictOf(items) ==
    [i \in 1..Len(DictKeys(items)) |->
        <<DictKeys(items)[i], DictGet(items, DictKeys(items)[i], <<>>)>>]

\* for key, value in auth_headers.items(): headers[key] = value
RECURSIVE Overlay(_, _)
Overlay(headers, auth) ==
    IF auth = <<>> THEN headers
    ELSE Overlay(DictSet(headers, Head(auth)[1], Head(auth)[2]), Tail(auth))

ForwardHeaders(req, cfg) ==
    Overlay(DictPop(DictPop(DictPop(DictPop(DictOf(req.headers),
                "host"), "content-length"), "x-rdp-host"), "x-host"),
            cfg.auth_headers)

\* ------------------------------------------------------------------------
\* ProxyServer._handle_proxy_request: the outbound URL (137)
\* ------------------------------------------------------------------------

\* The URL built without trimming the target.
TargetPathNoTrim(target_url, stripped_path) ==
    target_url \o <<"/">> \o stripped_path

\* target_path = f"{target_url.rstrip('/')}/{stripped_path}"
TargetPath(target_url, stripped_path) ==
    RStripChar(target_url, "/") \o <<"/">> \o stripped_path

\* ------------------------------------------------------------------------
\* ProxyServer._handle_proxy_request: the query sent upstream (157-159)
\* ------------------------------------------------------------------------

\* dict(request.query_params): one pair per distinct key, in order of first
\* appearance, with the value query_params[key], which is the last one of
\* a key that repeats.
QueryDict(items) ==
    [i \in 1..Len(DictKeys(items)) |->
        <<DictKeys(items)[i], QueryGet(items, DictKeys(items)[i])>>]

\* forwarded_params = dict(request.query_params); forwarded_params.pop("_host", None)
ForwardParams(req) == DictPop(QueryDict(req.query), "_host")

\* ------------------------------------------------------------------------
\* ProxyServer._handle_proxy_request: the response handed back (170-180)
\* ------------------------------------------------------------------------

\* The values of the headers called name, in their order.
HeaderValues(items, name) ==
    LET own == SelectSeq(items, LAMBDA p : p[1] = name)
    IN  [k \in 1..Len(own) |-> own[k][2]]

\* ", ".join(values)
RECURSIVE JoinValues(_)
JoinValues(values) ==
    IF values = <<>> THEN <<>>
    ELSE IF Len(values) = 1 THEN values[1]
    ELSE values[1] \o <<", ">> \o JoinValues(Tail(values))

\* response.headers.get(name): the values of the header joined by ", ",
\* nothing when the header is absent.
ResponseHeader(items, name) == JoinValues(HeaderValues(items, name))

\* dict(response.headers): one pair per distinct name, in order of first
\* appearance, the values of a name that repeats joined into one.
HeadersDict(items) ==
    [i \in 1..Len(DictKeys(items)) |->
        <<DictKeys(items)[i], ResponseHeader(items, DictKeys(items)[i])>>]

\* response_headers = dict(response.headers); response_headers.pop("content-length", None)
ResponseHeaders(items) == DictPop(HeadersDict(items), "content-length")

\* StreamingResponse(content=response.aiter_bytes(), status_code=...,
\* headers=response_headers, media_type=response.headers.get("content-type"))
StreamingResponse(status, items) ==
    [status |-> status, content |-> "aiter_bytes",
     headers |-> ResponseHeaders(items),
     media_type |-> ResponseHeader(items, "content-type")]

\* response.aiter_bytes() of a response that has been read: the whole
\* content in one piece, nothing for an empty content.
BufferedPieces(chunks) == IF chunks = <<>> THEN <<>> ELSE <<chunks>>

\* ------------------------------------------------------------------------
\* The failure paths (128-134 and 182-205)
\* ------------------------------------------------------------------------

PlainText(status, content) ==
    [status |-> status, content |-> content, media_type |-> "text/plain"]

\* The except clauses, tried in order, with the two upstream failures
\* answered by each other's response.
ErrorResponseSwapped(exc) ==
    IF exc = "ConnectError" THEN PlainText(504, "Backend service timeout")
    ELSE IF exc = "TimeoutException" THEN PlainText(502, "Backend service unavailable")
    ELSE PlainText(500, "Internal proxy error")

\* The except clauses, tried in order.
ErrorResponse(exc) ==
    IF exc = "ConnectError" THEN PlainText(502, "Backend service unavailable")
    ELSE IF exc = "TimeoutException" THEN PlainText(504, "Backend service timeout")
    ELSE PlainText(500, "Internal proxy error")

\* The line of the return statement in the except clause that catches exc.
ExceptLine(exc) ==
    IF exc = "ConnectError" THEN 185
    ELSE IF exc = "TimeoutException" THEN 193
    ELSE 201

\* self.error_count += 1, missing on the 404 path.
CountFailureSkip404(count, status) == IF status = 404 THEN count ELSE count + 1

\* self.error_count += 1 on the failure path answering `status`.  No await
\* stands between the read and the write, and the event loop runs one
\* coroutine at a time, so the increment is one step.
CountFailure(count, status) == count + 1

\* self.request_count += 1 written from a value read before another
\* request's increment.
CountRequestLost(count) == IF count >= 1 THEN count ELSE count + 1

\* self.request_count += 1 (line 50), one step for the same reason.
CountRequest(count) == count + 1

\* ------------------------------------------------------------------------
\* ProxyConfig and ConfigManager.load_config
\* ------------------------------------------------------------------------

\* The routes validator with its test left out.
ValidateRoutesAny(routes) == TRUE

\* ProxyConfig.validate_routes: `if not v: raise ValueError(...)`
ValidateRoutes(routes) == routes # <<>>

\* RouteConfig.validate_target: v.startswith(('http://', 'https://'))
ValidateTarget(target) ==
    \/ StartsWith(target, <<"http:", "/", "/">>)
    \/ StartsWith(target, <<"https:", "/", "/">>)

\* ProxyConfig(**data) raises no ValidationError.
ValidConfig(data) ==
    /\ ValidateRoutes(data.routes)
    /\ \A r \in 1..Len(data.routes) : ValidateTarget(data.routes[r].target)

\* ------------------------------------------------------------------------
\* State
\* ------------------------------------------------------------------------

VARIABLES
    last_load,      \* the last call of ConfigManager.load_config: the file it
                    \* read and the exception it raised
    config,         \* ConfigManager.config: routes, default, security.auth_headers
    request_count,  \* ProxyServer.request_count
    error_count,    \* ProxyServer.error_count
    sessions        \* one record per inbound request: where its coroutine
                    \* stands and the locals of _handle_proxy_request

vars == <<last_load, config, request_count, error_count, sessions>>

\* self.config = None: nothing is installed.
NoConfig == [config |-> "None"]

\* No call of load_config is on record.
NoLoad ==
    [called |-> FALSE,
     file |-> [exists |-> FALSE, routes |-> <<>>, default |-> <<>>,
               auth_headers |-> <<>>],
     raised |-> ""]

\* A request as the ASGI server hands it over: header names are lower-case.
Request(method, path, query, headers) ==
    [method |-> method, path |-> path, query |-> query, headers |-> headers]

\* The session of a request that has arrived and not been handled yet.
NewSession(req) ==
    [pc |-> "received", req |-> req, handler |-> "",
     effective_host |-> <<>>, stripped_path |-> <<>>, resolve_line |-> 0,
     target_url |-> <<>>, lookup_host |-> <<>>, route_line |-> 0,
     target_path |-> <<>>, headers |-> <<>>, params |-> <<>>,
     upstream_requests |-> 0, client_open |-> FALSE,
     upstream_status |-> 0, upstream_headers |-> <<>>, upstream_body |-> <<>>,
     read |-> <<>>, written |-> <<>>, logged |-> FALSE, disconnected |-> FALSE,
     raised |-> "", exit_line |-> 0,
     responses |-> <<>>]

HealthPath == <<"h","e","a","l","t","h">>

RoutesPath == <<"r","o","u","t","e","s">>

\* The route FastAPI dispatches to: /health and /routes are GET only, the
\* catch-all registered last takes every other request.
Handler(req) ==
    IF req.method = "GET" /\ req.path = HealthPath THEN "health_check"
    ELSE IF req.method = "GET" /\ req.path = RoutesPath THEN "list_routes"
    ELSE "proxy_request"

\* ------------------------------------------------------------------------
\* Actions
\* ------------------------------------------------------------------------

\* ConfigManager.load_config (reload_config is the same call): a missing
\* file and a configuration that does not validate raise and assign
\* nothing; a valid one is installed.
LoadConfig(file) ==
    /\ IF ~file.exists
       THEN /\ last_load' = [called |-> TRUE, file |-> file,
                          raised |-> "FileNotFoundError"]
            /\ config' = config
       ELSE IF ~ValidConfig(file)
       THEN /\ last_load' = [called |-> TRUE, file |-> file, raised |-> "ValueError"]
            /\ config' = config
       ELSE /\ last_load' = [called |-> TRUE, file |-> file, raised |-> ""]
            /\ config' = [routes |-> file.routes, default |-> file.default,
                          auth_headers |-> file.auth_headers]
    /\ UNCHANGED <<request_count, error_count, sessions>>

\* log_requests up to its await: count the request, then call the handler.
LogRequests(i) ==
    /\ sessions[i].pc = "received"
    /\ request_count' = CountRequest(request_count)
    /\ sessions' = [sessions EXCEPT ![i].pc = "dispatch",
                                    ![i].handler = Handler(sessions[i].req)]
    /\ UNCHANGED <<last_load, config, error_count>>

\* GET /health
HealthCheck(i) ==
    /\ sessions[i].pc = "dispatch"
    /\ sessions[i].handler = "health_check"
    /\ sessions' = [sessions EXCEPT
            ![i].pc = "responded",
            ![i].exit_line = 66,
            ![i].responses = Append(@,
                [status |-> 200, content |-> "healthy",
                 request_count |-> request_count, error_count |-> error_count,
                 media_type |-> "application/json"])]
    /\ UNCHANGED <<last_load, config, request_count, error_count>>

\* GET /routes
ListRoutes(i) ==
    /\ sessions[i].pc = "dispatch"
    /\ sessions[i].handler = "list_routes"
    /\ sessions' = [sessions EXCEPT
            ![i].pc = "responded",
            ![i].exit_line = 77,
            ![i].responses = Append(@,
                [status |-> 200, content |-> "routes",
                 routes |-> config.routes, default |-> config.default,
                 media_type |-> "application/json"])]
    /\ UNCHANGED <<last_load, config, request_count, error_count>>

\* _handle_proxy_request from its entry to `await request.body()`: host
\* selection, route lookup, the 404 exit, the outbound headers.
ProxyBegin(i) ==
    /\ sessions[i].pc = "dispatch"
    /\ sessions[i].handler = "proxy_request"
    /\ \E res \in {ResolveHost(sessions[i].req)} :
       \E route \in {GetRoute(config, res.effective_host)} :
       LET req == sessions[i].req
           resolved == [sessions[i] EXCEPT
                           !.effective_host = res.effective_host,
                           !.stripped_path = res.stripped_path,
                           !.resolve_line = res.line,
                           !.target_url = route.target,
                           !.lookup_host = route.host,
                           !.route_line = route.line]
       IN  IF route.target = <<>>
           THEN /\ error_count' = CountFailure(error_count, 404)
                /\ sessions' = [sessions EXCEPT ![i] =
                       [resolved EXCEPT
                           !.pc = "errored",
                           !.exit_line = 130,
                           !.responses = Append(@,
                               PlainText(404, "No route found for host"))]]
           ELSE /\ error_count' = error_count
                /\ sessions' = [sessions EXCEPT ![i] =
                       [resolved EXCEPT
                           !.pc = "resolved",
                           !.target_path = TargetPath(route.target, res.stripped_path),
                           !.headers = ForwardHeaders(req, config)]]
    /\ UNCHANGED <<last_load, config, request_count>>

\* `await request.body()` returns; the client is opened (156) and the
\* request goes out (161-168).
SendUpstream(i) ==
    /\ sessions[i].pc = "resolved"
    /\ sessions' = [sessions EXCEPT ![i].pc = "forwarding",
                                    ![i].client_open = TRUE,
                                    ![i].params = ForwardParams(sessions[i].req),
                                    ![i].upstream_requests = @ + 1]
    /\ UNCHANGED <<last_load, config, request_count, error_count>>

\* `await request.body()` raises (the caller went away): the last except
\* clause answers. No client has been opened.
BodyFails(i) ==
    /\ sessions[i].pc = "resolved"
    /\ error_count' = CountFailure(error_count, ErrorResponse("ClientDisconnect").status)
    /\ sessions' = [sessions EXCEPT
            ![i].pc = "errored",
            ![i].raised = "ClientDisconnect",
            ![i].exit_line = ExceptLine("ClientDisconnect"),
            ![i].responses = Append(@, ErrorResponse("ClientDisconnect"))]
    /\ UNCHANGED <<last_load, config, request_count>>

UpstreamStatuses == {200, 302, 502}

\* Inside `await client.request(...)`: the status line and the headers of
\* the upstream's answer arrive, whatever the status (follow_redirects is
\* False: a 3xx is an answer like any other).
UpstreamResponds(i, status, headers, body) ==
    /\ sessions[i].pc = "forwarding"
    /\ sessions[i].upstream_status = 0
    /\ sessions' = [sessions EXCEPT
            ![i].upstream_status = status,
            ![i].upstream_headers = headers,
            ![i].upstream_body = body]
    /\ UNCHANGED <<last_load, config, request_count, error_count>>

\* Inside `await client.request(...)`, which is not a streaming call: the
\* client reads the next chunk of the body into the response's content.
ReadChunk(i) ==
    /\ sessions[i].pc = "forwarding"
    /\ sessions[i].upstream_status # 0
    /\ Len(sessions[i].read) < Len(sessions[i].upstream_body)
    /\ sessions' = [sessions EXCEPT
            ![i].read = Append(@, sessions[i].upstream_body[Len(@) + 1])]
    /\ UNCHANGED <<last_load, config, request_count, error_count>>

\* client.request returns once the body has been read to its end; the
\* handler builds the StreamingResponse and returns it (170-180), leaving
\* the `async with` block, which closes the client.
ReturnStreaming(i) ==
    /\ sessions[i].pc = "forwarding"
    /\ sessions[i].upstream_status # 0
    /\ Len(sessions[i].read) = Len(sessions[i].upstream_body)
    /\ sessions' = [sessions EXCEPT
            ![i].pc = "streaming",
            ![i].client_open = FALSE,
            ![i].exit_line = 175,
            ![i].responses = Append(@,
                StreamingResponse(sessions[i].upstream_status,
                                  sessions[i].upstream_headers))]
    /\ UNCHANGED <<last_load, config, request_count, error_count>>

UpstreamExceptions == {"ConnectError", "TimeoutException", "ReadError"}

\* client.request raises and the request is made once more before the
\* failure is answered.
UpstreamFailsRetry(i, exc) ==
    /\ sessions[i].pc = "forwarding"
    /\ exc = "ConnectError" => sessions[i].upstream_status = 0
    /\ IF sessions[i].upstream_requests < 2
       THEN /\ error_count' = error_count
            /\ sessions' = [sessions EXCEPT
                    ![i].upstream_requests = @ + 1,
                    ![i].upstream_status = 0,
                    ![i].upstream_headers = <<>>,
                    ![i].upstream_body = <<>>,
                    ![i].read = <<>>]
       ELSE /\ error_count' = CountFailure(error_count, ErrorResponse(exc).status)
            /\ sessions' = [sessions EXCEPT
                    ![i].pc = "errored",
                    ![i].client_open = FALSE,
                    ![i].raised = exc,
                    ![i].exit_line = ExceptLine(exc),
                    ![i].responses = Append(@, ErrorResponse(exc))]
    /\ UNCHANGED <<last_load, config, request_count>>

\* client.request raises, before the upstream answers or while its body is
\* read, and the exception leaves the `async with` block without closing
\* the client.
UpstreamFailsLeak(i, exc) ==
    /\ sessions[i].pc = "forwarding"
    /\ exc = "ConnectError" => sessions[i].upstream_status = 0
    /\ error_count' = CountFailure(error_count, ErrorResponse(exc).status)
    /\ sessions' = [sessions EXCEPT
            ![i].pc = "errored",
            ![i].raised = exc,
            ![i].exit_line = ExceptLine(exc),
            ![i].responses = Append(@, ErrorResponse(exc))]
    /\ UNCHANGED <<last_load, config, request_count>>

\* client.request raises, before the upstream answers or while its body is
\* read: the exception leaves the `async with` block, which closes the
\* client, and the matching except clause counts the failure and answers.
UpstreamFails(i, exc) ==
    /\ sessions[i].pc = "forwarding"
    /\ exc = "ConnectError" => sessions[i].upstream_status = 0
    /\ error_count' = CountFailure(error_count, ErrorResponse(exc).status)
    /\ sessions' = [sessions EXCEPT
            ![i].pc = "errored",
            ![i].client_open = FALSE,
            ![i].raised = exc,
            ![i].exit_line = ExceptLine(exc),
            ![i].responses = Append(@, ErrorResponse(exc))]
    /\ UNCHANGED <<last_load, config, request_count>>

\* log_requests after its await: log the response and return it. A plain
\* response goes out whole; the body of a streaming one follows.
LogReturn(i) ==
    /\ sessions[i].pc \in {"responded", "streaming", "errored"}
    /\ ~sessions[i].logged
    /\ sessions' = [sessions EXCEPT
            ![i].logged = TRUE,
            ![i].pc = IF @ = "streaming" THEN "streaming" ELSE "closed"]
    /\ UNCHANGED <<last_load, config, request_count, error_count>>

\* The StreamingResponse sends the next piece response.aiter_bytes() gives.
WriteChunk(i) ==
    /\ sessions[i].pc = "streaming"
    /\ sessions[i].logged
    /\ Len(sessions[i].written) < Len(BufferedPieces(sessions[i].read))
    /\ sessions' = [sessions EXCEPT
            ![i].written = Append(@, BufferedPieces(sessions[i].read)[Len(@) + 1])]
    /\ UNCHANGED <<last_load, config, request_count, error_count>>

\* The iterator is exhausted: the response is complete.
StreamEnds(i) ==
    /\ sessions[i].pc = "streaming"
    /\ sessions[i].logged
    /\ Len(sessions[i].written) = Len(BufferedPieces(sessions[i].read))
    /\ sessions' = [sessions EXCEPT ![i].pc = "closed"]
    /\ UNCHANGED <<last_load, config, request_count, error_count>>

\* The caller goes away before the body has been written to it.
ClientDisconnects(i) ==
    /\ sessions[i].pc = "streaming"
    /\ sessions[i].logged
    /\ Len(sessions[i].written) < Len(BufferedPieces(sessions[i].read))
    /\ sessions' = [sessions EXCEPT ![i].pc = "closed",
                                    ![i].disconnected = TRUE]
    /\ UNCHANGED <<last_load, config, request_count, error_count>>

\* ------------------------------------------------------------------------
\* Inputs
\* ------------------------------------------------------------------------

\* The number of concurrent inbound requests.
NumRequests == 2

\* The number of pieces a Host value is put together from.
MaxHostParts == 3

\* The number of pieces a request path is put together from.
MaxPathParts == 3

\* Every concatenation of at most n of the pieces.
RECURSIVE Words(_, _)
Words(pieces, n) ==
    IF n = 0 THEN {<<>>}
    ELSE Words(pieces, n - 1)
         \cup {w \o p : w \in Words(pieces, n - 1), p \in pieces}

HostPieces ==
    {<<"a">>, <<"A">>, <<"s">>, <<".","s">>, DotLocalhost, <<":">>, <<"8">>, <<" ">>}

HostPool == Words(HostPieces, MaxHostParts)

PathPieces ==
    {HostMarker, <<"_","_","h","o","s","t">>, AtMarker, <<"/">>, <<"p">>, <<"/","u">>}

PathPool == Words(PathPieces, MaxPathParts)

TargetA == <<"http:", "/", "/", "127.0.0.1:3000">>

TargetB == <<"http:", "/", "/", "127.0.0.1:3001", "/">>

TargetC == <<"https:", "/", "/", "c.example">>

TargetDefault == <<"http:", "/", "/", "127.0.0.1:9000">>

Route(domain, target, aliases) ==
    [domain |-> domain, target |-> target, aliases |-> aliases]

Config(routes, default, auth_headers) ==
    [routes |-> routes, default |-> default, auth_headers |-> auth_headers]

\* Routing tables: keys are distinct, every target starts with http:// or
\* https:// (RouteConfig.validate_target), there is at least one route
\* (ProxyConfig.validate_routes).  Keys and aliases are whatever the
\* configuration file holds: nothing trims or lower-cases them on load.
RoutePool ==
    {
      <<Route(<<"a">>, TargetA, <<>>)>>,
      <<Route(<<"a">>, TargetA, << <<"*",".","s">> >>),
        Route(<<"a",".","s">>, TargetB, <<>>)>>,
      <<Route(<<"*",".","s">>, TargetA, <<>>),
        Route(<<"a">>, TargetB, << <<"*",".","s">> >>)>>,
      <<Route(<<"a">>, TargetA, << <<"s">> >>),
        Route(<<"*",".","s">>, TargetB, << <<"*",".","s">>, <<"s">> >>),
        Route(<<"*",".","s",".","s">>, TargetC, <<>>)>>,
      <<Route(<<"A">>, TargetA, << <<" ","*",".","S">> >>),
        Route(<<"s">>, TargetB, << <<"A"," ">> >>)>>,
      <<Route(<<" ","*",".","S"," ">>, TargetA, <<>>),
        Route(<<"a",".","l","o","c","a","l","h","o","s","t">>, TargetB, <<>>)>>,
      <<Route(<<"a">>, TargetA, << <<"*","s">>, <<"*">> >>),
        Route(<<"*","s">>, TargetB, <<>>)>>,
      <<Route(<<>>, TargetA, << <<"a"," ">> >>),
        Route(<<"a"," ">>, TargetB, <<>>)>>
    }

RouteConfigs == {Config(routes, TargetDefault, <<>>) : routes \in RoutePool}

\* One request is looked up in each routing table: a GET of /p that
\* carries nothing but a Host header.
InitRoute ==
    /\ config \in RouteConfigs
    /\ last_load = NoLoad
    /\ request_count = 0
    /\ error_count = 0
    /\ sessions \in {[i \in {1} |->
                        NewSession(Request("GET", <<"p">>, <<>>, << <<"host", h>> >>))] :
                     h \in HostPool}

NextRoute ==
    \/ \E i \in DOMAIN sessions : LogRequests(i)
    \/ \E i \in DOMAIN sessions : ProxyBegin(i)

SpecRoute == InitRoute /\ [][NextRoute]_vars

\* The override values a request may carry, one letter per source.
QueryPool ==
    {<<>>, << <<"_host", <<>> >> >>, << <<"_host", <<"q">> >> >>,
     << <<"id", <<"1">> >>, <<"_host", <<"q">> >> >>}

OptionalHeader(name, values) == {<<>>} \cup {<< <<name, v>> >> : v \in values}

HeaderPool ==
    {rdp \o xh \o host :
        rdp \in OptionalHeader("x-rdp-host", {<<>>, <<"r">>}),
        xh \in OptionalHeader("x-host", {<<>>, <<"x">>}),
        host \in OptionalHeader("host", {<<>>, <<"h">>})}

ResolveConfig ==
    Config(<<Route(<<"q">>, TargetA, <<>>), Route(<<"p">>, TargetB, <<>>)>>,
           TargetDefault, <<>>)

\* One request with every combination of the five host sources.
InitResolve ==
    /\ config = ResolveConfig
    /\ last_load = NoLoad
    /\ request_count = 0
    /\ error_count = 0
    /\ sessions \in {[i \in {1} |-> NewSession(Request("GET", path, query, headers))] :
                     path \in PathPool, query \in QueryPool, headers \in HeaderPool}

NextResolve ==
    \/ \E i \in DOMAIN sessions : LogRequests(i)
    \/ \E i \in DOMAIN sessions : ProxyBegin(i)

SpecResolve == InitResolve /\ [][NextResolve]_vars

\* The server under concurrent requests: a table with the key a, with and
\* without a default target (DefaultRoute.target may be any string, the
\* empty one included: it has no validator).
ServerConfigs ==
    {Config(<<Route(<<"a">>, TargetA, <<>>)>>, default, <<>>) :
        default \in {TargetDefault, <<>>}}

RequestPool ==
    {Request("GET", HealthPath, <<>>, << <<"host", <<"a">> >> >>),
     Request("GET", RoutesPath, <<>>, << <<"host", <<"a">> >> >>),
     Request("GET", <<"p">>, <<>>, << <<"host", <<"a">> >> >>),
     Request("POST", <<"p">>, <<>>, << <<"host", <<"s">> >> >>)}

\* The k-th chunk of an upstream body.
Chunk(k) == <<"chunk", k>>

\* What the one backend of these runs answers with: a success or a failure
\* of its own, a short body and its headers.
ServerStatuses == {200, 502}

ServerHeaders ==
    << <<"content-type", <<"text/plain">> >>, <<"content-length", <<"1">> >> >>

ServerBody == <<Chunk(1)>>

Init ==
    /\ config \in ServerConfigs
    /\ last_load = NoLoad
    /\ request_count = 0
    /\ error_count = 0
    /\ sessions \in [1..NumRequests -> {NewSession(req) : req \in RequestPool}]

Next ==
    \/ \E i \in DOMAIN sessions : LogRequests(i)
    \/ \E i \in DOMAIN sessions : HealthCheck(i)
    \/ \E i \in DOMAIN sessions : ListRoutes(i)
    \/ \E i \in DOMAIN sessions : ProxyBegin(i)
    \/ \E i \in DOMAIN sessions : SendUpstream(i)
    \/ \E i \in DOMAIN sessions : BodyFails(i)
    \/ \E i \in DOMAIN sessions : \E status \in ServerStatuses :
            UpstreamResponds(i, status, ServerHeaders, ServerBody)
    \/ \E i \in DOMAIN sessions : ReadChunk(i)
    \/ \E i \in DOMAIN sessions : ReturnStreaming(i)
    \/ \E i \in DOMAIN sessions : \E exc \in UpstreamExceptions :
            UpstreamFails(i, exc)
    \/ \E i \in DOMAIN sessions : LogReturn(i)
    \/ \E i \in DOMAIN sessions : WriteChunk(i)
    \/ \E i \in DOMAIN sessions : StreamEnds(i)
    \/ \E i \in DOMAIN sessions : ClientDisconnects(i)

Spec == Init /\ [][Next]_vars

\* The headers a request may arrive with, in this order, each present or
\* not.
InboundHeaders ==
    << <<"host", <<"a">> >>,
       <<"content-length", <<"5">> >>,
       <<"x-rdp-host", <<"a">> >>,
       <<"x-host", <<"s">> >>,
       <<"authorization", <<"c","l","i","e","n","t">> >>,
       <<"accept", <<"*">> >> >>

\* The subsequence of items at the positions in keep.
RECURSIVE Pick(_, _, _)
Pick(items, keep, k) ==
    IF k > Len(items) THEN <<>>
    ELSE (IF k \in keep THEN <<items[k]>> ELSE <<>>) \o Pick(items, keep, k + 1)

InboundHeaderPool ==
    {Pick(InboundHeaders, keep, 1) : keep \in SUBSET (1..Len(InboundHeaders))}

\* security.auth_headers: any names and values the configuration file
\* holds, spelled as the operator spelled them.
AuthPool ==
    {<<>>,
     << <<"authorization", <<"c","f","g">> >> >>,
     << <<"Authorization", <<"c","f","g">> >> >>,
     << <<"x-api-key", <<"k">> >> >>,
     << <<"X-Api-Key", <<"k">> >>, <<"authorization", <<"c","f","g">> >> >>}

ForwardConfigs ==
    {Config(<<Route(<<"a">>, TargetA, <<>>)>>, TargetDefault, auth) : auth \in AuthPool}

\* The query strings a forwarded request may carry: with and without the
\* override key, with a key that repeats.
ForwardQueryPool ==
    {<<>>,
     << <<"_host", <<"a">> >> >>,
     << <<"id", <<"1">> >> >>,
     << <<"id", <<"1">> >>, <<"_host", <<>> >> >>,
     << <<"tag", <<"x">> >>, <<"tag", <<"y">> >> >>,
     << <<"_host", <<"a">> >>, <<"tag", <<"x">> >>, <<"id", <<"1">> >>,
        <<"tag", <<"y">> >> >>}

\* One request with every set of inbound headers and every query string,
\* under every set of configured auth headers.
InitForward ==
    /\ config \in ForwardConfigs
    /\ last_load = NoLoad
    /\ request_count = 0
    /\ error_count = 0
    /\ sessions \in {[i \in {1} |-> NewSession(Request("POST", <<"p">>, query, headers))] :
                     headers \in InboundHeaderPool, query \in ForwardQueryPool}

NextForward ==
    \/ \E i \in DOMAIN sessions : LogRequests(i)
    \/ \E i \in DOMAIN sessions : ProxyBegin(i)
    \/ \E i \in DOMAIN sessions : SendUpstream(i)

SpecForward == InitForward /\ [][NextForward]_vars

\* The number of chunks an upstream body arrives in.
MaxChunks == 2

\* The bodies an upstream may send: the first n of the chunks, in order.
BodyPool == {[k \in 1..n |-> Chunk(k)] : n \in 0..MaxChunks}

\* The headers an upstream may answer with: none, a length, a redirect's
\* location, a header that repeats.
UpstreamHeaderPool ==
    {<<>>,
     << <<"content-type", <<"text/html">> >>, <<"content-length", <<"42">> >> >>,
     << <<"content-length", <<"0">> >>, <<"location", <<"/login">> >> >>,
     << <<"set-cookie", <<"a=1">> >>, <<"content-type", <<"text/html">> >>,
        <<"set-cookie", <<"b=2">> >> >>}

\* One forwarded request, every answer of the upstream.
InitStream ==
    /\ config = Config(<<Route(<<"a">>, TargetA, <<>>)>>, TargetDefault, <<>>)
    /\ last_load = NoLoad
    /\ request_count = 0
    /\ error_count = 0
    /\ sessions = [i \in {1} |->
                     NewSession(Request("GET", <<"p">>, <<>>, << <<"host", <<"a">> >> >>))]

NextStream ==
    \/ \E i \in DOMAIN sessions : LogRequests(i)
    \/ \E i \in DOMAIN sessions : ProxyBegin(i)
    \/ \E i \in DOMAIN sessions : SendUpstream(i)
    \/ \E i \in DOMAIN sessions : BodyFails(i)
    \/ \E i \in DOMAIN sessions :
            \E status \in UpstreamStatuses, headers \in UpstreamHeaderPool,
               body \in BodyPool :
                UpstreamResponds(i, status, headers, body)
    \/ \E i \in DOMAIN sessions : ReadChunk(i)
    \/ \E i \in DOMAIN sessions : ReturnStreaming(i)
    \/ \E i \in DOMAIN sessions : \E exc \in UpstreamExceptions :
            UpstreamFails(i, exc)
    \/ \E i \in DOMAIN sessions : LogReturn(i)
    \/ \E i \in DOMAIN sessions : WriteChunk(i)
    \/ \E i \in DOMAIN sessions : StreamEnds(i)
    \/ \E i \in DOMAIN sessions : ClientDisconnects(i)

SpecStream == InitStream /\ [][NextStream]_vars

\* A configuration file: there or not, and what it holds.
ConfigFile(exists, routes, default) ==
    [exists |-> exists, routes |-> routes, default |-> default,
     auth_headers |-> <<>>]

TargetFtp == <<"ftp:", "/", "/", "127.0.0.1:21">>

\* The files load_config may find: none, one without routes (with and
\* without a default target), valid ones, one with a target that is no
\* HTTP URL.
FilePool ==
    {ConfigFile(FALSE, <<>>, <<>>),
     ConfigFile(TRUE, <<>>, TargetDefault),
     ConfigFile(TRUE, <<>>, <<>>),
     ConfigFile(TRUE, <<Route(<<"a">>, TargetA, <<>>)>>, TargetDefault),
     ConfigFile(TRUE, <<Route(<<"a">>, TargetA, <<>>), Route(<<"s">>, TargetB, <<>>)>>,
                <<>>),
     ConfigFile(TRUE, <<Route(<<"a">>, TargetFtp, <<>>)>>, TargetDefault)}

\* The server is started once a configuration has been loaded (cli.start
\* loads before it builds the ProxyServer and exits when the load fails).
Serving == config # NoConfig

\* A fresh ConfigManager, and requests that wait for the server.
InitConfig ==
    /\ config = NoConfig
    /\ last_load = NoLoad
    /\ request_count = 0
    /\ error_count = 0
    /\ sessions \in [1..NumRequests ->
                       {NewSession(Request("GET", <<"p">>, <<>>, << <<"host", h>> >>)) :
                            h \in {<<"a">>, <<"s">>}}]

NextConfig ==
    \/ \E file \in FilePool : LoadConfig(file)
    \/ \E i \in DOMAIN sessions : Serving /\ LogRequests(i)
    \/ \E i \in DOMAIN sessions : Serving /\ ProxyBegin(i)

SpecConfig == InitConfig /\ [][NextConfig]_vars

\* Concurrent proxied requests, two to a host with a route and one to a
\* host without (there is no default target), each coroutine scheduled
\* fairly.
FairRequests ==
    <<Request("GET", <<"p">>, <<>>, << <<"host", <<"a">> >> >>),
      Request("POST", <<"p">>, <<>>, << <<"host", <<"a">> >> >>),
      Request("GET", <<"p">>, <<>>, << <<"host", <<"s">> >> >>)>>

InitFair ==
    /\ config = Config(<<Route(<<"a">>, TargetA, <<>>)>>, <<>>, <<>>)
    /\ last_load = NoLoad
    /\ request_count = 0
    /\ error_count = 0
    /\ sessions = [i \in DOMAIN FairRequests |-> NewSession(FairRequests[i])]

NextFair ==
    \/ \E i \in DOMAIN sessions : LogRequests(i)
    \/ \E i \in DOMAIN sessions : ProxyBegin(i)
    \/ \E i \in DOMAIN sessions : SendUpstream(i)
    \/ \E i \in DOMAIN sessions : BodyFails(i)
    \/ \E i \in DOMAIN sessions : \E status \in ServerStatuses :
            UpstreamResponds(i, status, ServerHeaders, ServerBody)
    \/ \E i \in DOMAIN sessions : ReadChunk(i)
    \/ \E i \in DOMAIN sessions : ReturnStreaming(i)
    \/ \E i \in DOMAIN sessions : \E exc \in UpstreamExceptions :
            UpstreamFails(i, exc)
    \/ \E i \in DOMAIN sessions : LogReturn(i)
    \/ \E i \in DOMAIN sessions : WriteChunk(i)
    \/ \E i \in DOMAIN sessions : StreamEnds(i)
    \/ \E i \in DOMAIN sessions : ClientDisconnects(i)

\* The next step of the coroutine of request i, whichever it is: the event
\* loop runs every coroutine that is ready, the caller's body arrives or
\* its connection breaks, and the client's timeout bounds every wait for
\* the upstream.
SessionStep(i) ==
    \/ LogRequests(i)
    \/ ProxyBegin(i)
    \/ SendUpstream(i)
    \/ BodyFails(i)
    \/ \E status \in ServerStatuses :
            UpstreamResponds(i, status, ServerHeaders, ServerBody)
    \/ ReadChunk(i)
    \/ ReturnStreaming(i)
    \/ \E exc \in UpstreamExceptions : UpstreamFails(i, exc)
    \/ LogReturn(i)
    \/ WriteChunk(i)
    \/ StreamEnds(i)
    \/ ClientDisconnects(i)

FairSpec ==
    /\ InitFair
    /\ [][NextFair]_vars
    /\ \A i \in DOMAIN FairRequests : WF_vars(SessionStep(i))

\* ------------------------------------------------------------------------
\* Properties
\* ------------------------------------------------------------------------

\* The sessions whose handler has called get_route.
Routed == {i \in DOMAIN sessions : sessions[i].route_line # 0}

\* The least member of a non-empty set of numbers.
Least(S) == CHOOSE n \in S : \A m \in S : n <= m

\* The routes that take part in each stage of the lookup of host.
ExactRoutes(host) ==
    {i \in 1..Len(config.routes) : config.routes[i].domain = host}

AliasRoutes(host) ==
    {i \in 1..Len(config.routes) :
        \E j \in 1..Len(config.routes[i].aliases) :
            AliasMatch(config.routes[i].aliases[j], host) # 0}

WildcardKeyRoutes(host) ==
    {i \in 1..Len(config.routes) : DomainWildcardMatch(config.routes[i].domain, host)}

\* The target the four stages, taken in order, give for host.
StagedTarget(host) ==
    IF ExactRoutes(host) # {} THEN config.routes[Least(ExactRoutes(host))].target
    ELSE IF AliasRoutes(host) # {} THEN config.routes[Least(AliasRoutes(host))].target
    ELSE IF WildcardKeyRoutes(host) # {}
    THEN config.routes[Least(WildcardKeyRoutes(host))].target
    ELSE config.default

\* C3: with a default route present, get_route returns the target of the
\* first stage that matches, in the order exact key, first route with a
\* matching alias, first wildcard key, default; the return statement taken
\* is that stage's, so a later stage is never used when an earlier one
\* matches.
C3_StageOrder ==
    \A i \in Routed :
        LET s == sessions[i]
        IN  /\ s.target_url = StagedTarget(s.lookup_host)
            /\ (s.route_line = 82) = (ExactRoutes(s.lookup_host) # {})
            /\ (s.route_line \in {90, 92}) =
                  (ExactRoutes(s.lookup_host) = {} /\ AliasRoutes(s.lookup_host) # {})
            /\ (s.route_line = 98) =
                  (/\ ExactRoutes(s.lookup_host) = {}
                   /\ AliasRoutes(s.lookup_host) = {}
                   /\ WildcardKeyRoutes(s.lookup_host) # {})
            /\ (s.route_line = 101) =
                  (/\ ExactRoutes(s.lookup_host) = {}
                   /\ AliasRoutes(s.lookup_host) = {}
                   /\ WildcardKeyRoutes(s.lookup_host) = {})

\* An alias stage that wins over a wildcard key standing earlier in the table.
C3_Witness ==
    \E i \in Routed :
        /\ sessions[i].route_line = 92
        /\ WildcardKeyRoutes(sessions[i].lookup_host) # {}
        /\ Least(WildcardKeyRoutes(sessions[i].lookup_host))
              < Least(AliasRoutes(sessions[i].lookup_host))
        /\ sessions[i].target_url = TargetB

\* h with its trailing .localhost removed.
WithoutLocalhost(h) == SubSeq(h, 1, Len(h) - Len(DotLocalhost))

\* C4 as stated: for every host h that ends with .localhost, get_route(h)
\* returns the target get_route returns for h without that suffix.
C4_LocalhostAlways ==
    \A i \in Routed :
        LET h == sessions[i].effective_host
        IN  EndsWith(h, DotLocalhost)
            => sessions[i].target_url = GetRoute(config, WithoutLocalhost(h)).target

\* The remainder of a .localhost host for which the suffix is removed
\* exactly once on both sides: it does not end with white space and,
\* normalized, does not itself end with .localhost.
PlainRemainder(r) ==
    /\ (r = <<>> \/ ~IsSpace(r[Len(r)]))
    /\ ~EndsWith(NormalizeHost(r), DotLocalhost)

\* C4 amended: for every host h that ends with .localhost and whose
\* remainder neither ends with white space nor, normalized, ends with
\* .localhost itself, get_route(h) returns the target get_route returns
\* for the remainder.
C4_LocalhostOnce ==
    \A i \in Routed :
        LET h == sessions[i].effective_host
        IN  (EndsWith(h, DotLocalhost) /\ PlainRemainder(WithoutLocalhost(h)))
            => /\ sessions[i].target_url = GetRoute(config, WithoutLocalhost(h)).target
               /\ sessions[i].lookup_host = GetRoute(config, WithoutLocalhost(h)).host

\* a.localhost resolved by the key a.
C4_Witness ==
    \E i \in Routed :
        /\ sessions[i].effective_host = <<"a">> \o DotLocalhost
        /\ sessions[i].route_line = 82
        /\ sessions[i].target_url = TargetA

\* A normalized host: no port, no surrounding white space, lower case.
IsNormalized(h) == Find(h, ":") = 0 /\ Strip(h) = h /\ Lower(h) = h

\* A port: one decimal digit or more.
IsPort(p) ==
    /\ p # <<>>
    /\ \A k \in 1..Len(p) : p[k] \in {"0","1","2","3","4","5","6","7","8","9"}

\* C5: a request whose only host signal is `Host: h:p`, h normalized and p
\* a port, is looked up under the host, and gets the target, of a request
\* with `Host: h`.
C5_PortIgnored ==
    \A i \in Routed :
        LET s == sessions[i]
        IN  s.resolve_line = 124 =>
              \A k \in 1..Len(s.effective_host) :
                 LET h == SubSeq(s.effective_host, 1, k - 1)
                     p == SubSeq(s.effective_host, k + 1, Len(s.effective_host))
                 IN  (s.effective_host[k] = ":" /\ IsNormalized(h) /\ IsPort(p))
                     => /\ s.lookup_host = StripLocalhost(h)
                        /\ s.target_url = GetRoute(config, h).target

\* Host: a:8 resolved by the key a.
C5_Witness ==
    \E i \in Routed :
        /\ sessions[i].resolve_line = 124
        /\ sessions[i].effective_host = <<"a", ":", "8">>
        /\ sessions[i].lookup_host = <<"a">>
        /\ sessions[i].target_url = TargetA

\* The rule of C6 for one alias as it is written in the table, letter case
\* aside: a wildcard *.S matches the hosts that end with .S, any other
\* alias matches the host equal to it.
WrittenAliasMatches(alias, host) ==
    IF StartsWith(alias, WildcardPrefix)
    THEN EndsWith(host, Tail(Lower(alias)))
    ELSE Lower(alias) = host

\* The same rule for the alias trimmed of surrounding white space.
TrimmedAliasMatches(alias, host) == WrittenAliasMatches(Strip(alias), host)

\* The sessions whose lookup went past the exact stage into the alias scan.
AliasScanned == {i \in Routed : sessions[i].route_line # 82}

\* C6 as stated: the alias scan returns a route exactly when one of the
\* aliases, as written, matches the host by the rule: *.S by the suffix
\* .S, any other alias by equality.
C6_AliasAsWritten ==
    \A i \in AliasScanned :
        (sessions[i].route_line \in {90, 92}) =
            (\E r \in 1..Len(config.routes) :
                \E j \in 1..Len(config.routes[r].aliases) :
                    WrittenAliasMatches(config.routes[r].aliases[j],
                                        sessions[i].lookup_host))

\* The routes with an alias that, trimmed, matches by the rule.
TrimmedAliasRoutes(host) ==
    {r \in 1..Len(config.routes) :
        \E j \in 1..Len(config.routes[r].aliases) :
            TrimmedAliasMatches(config.routes[r].aliases[j], host)}

\* C6 amended: the rule applies to the alias trimmed of surrounding white
\* space and compared without regard to letter case: the alias scan
\* returns the first route with an alias that, so trimmed, is *.S and the
\* host ends with .S, or is not a wildcard and equals the host.
C6_AliasTrimmed ==
    \A i \in AliasScanned :
        LET s == sessions[i]
        IN  /\ (s.route_line \in {90, 92}) = (TrimmedAliasRoutes(s.lookup_host) # {})
            /\ s.route_line \in {90, 92}
                 => s.target_url =
                       config.routes[Least(TrimmedAliasRoutes(s.lookup_host))].target

\* The alias *.s matches a.s.s, a subdomain two levels down, in a table
\* where it does not match the bare s.
C6_Witness ==
    \E i \in AliasScanned :
        /\ sessions[i].lookup_host = <<"a", ".", "s", ".", "s">>
        /\ sessions[i].route_line = 92
        /\ config.routes[1].aliases = << <<"*", ".", "s">> >>

\* What follows the marker a path starts with; the empty string when the
\* path starts with neither __host/ nor @.
AfterMarker(path) ==
    IF StartsWith(path, HostMarker) THEN SubSeq(path, Len(HostMarker) + 1, Len(path))
    ELSE IF StartsWith(path, AtMarker) THEN SubSeq(path, Len(AtMarker) + 1, Len(path))
    ELSE <<>>

\* The <domain> of __host/<domain>/<rest> or @<domain>/<rest>: up to the
\* next slash.
MarkerDomain(path) ==
    IF Find(AfterMarker(path), "/") = 0 THEN AfterMarker(path)
    ELSE SubSeq(AfterMarker(path), 1, Find(AfterMarker(path), "/") - 1)

\* The <rest>: what follows that slash, empty when there is none.
MarkerRest(path) ==
    IF Find(AfterMarker(path), "/") = 0 THEN <<>>
    ELSE SubSeq(AfterMarker(path), Find(AfterMarker(path), "/") + 1,
                Len(AfterMarker(path)))

\* The first non-empty member of a sequence of strings, the empty string
\* when all are empty.
FirstNonEmpty(values) ==
    IF \E k \in 1..Len(values) : values[k] # <<>>
    THEN values[Least({k \in 1..Len(values) : values[k] # <<>>})]
    ELSE <<>>

\* The five host sources of a request, in the order of their precedence.
HostSources(req) ==
    <<QueryGet(req.query, "_host"),
      DictGet(req.headers, "x-rdp-host", <<>>),
      DictGet(req.headers, "x-host", <<>>),
      MarkerDomain(req.path),
      DictGet(req.headers, "host", <<>>)>>

\* C1: the effective host is the first non-empty value among the query
\* parameter _host, the header x-rdp-host, the header x-host, the domain of
\* a path marker and the Host header, whichever of them are present.
C1_Precedence ==
    \A i \in Routed :
        sessions[i].effective_host = FirstNonEmpty(HostSources(sessions[i].req))

\* All five sources are present and the query parameter wins; in another
\* request only a marker and the Host header are, and the marker wins.
C1_Witness ==
    \E i \in Routed :
        /\ \A k \in 1..5 : HostSources(sessions[i].req)[k] # <<>>
        /\ sessions[i].effective_host = <<"q">>
        /\ sessions[i].resolve_line = 98

\* C2: stripped_path is the <rest> after marker and domain when the
\* effective host was taken from a path marker, and the original path,
\* whatever it starts with, when it was taken from the query parameter, an
\* override header or the Host header.
C2_StrippedPath ==
    \A i \in Routed :
        sessions[i].stripped_path =
            IF sessions[i].resolve_line \in {113, 119}
            THEN MarkerRest(sessions[i].req.path)
            ELSE sessions[i].req.path

\* The sessions dispatched to the catch-all proxy route.
Proxied == {i \in DOMAIN sessions : sessions[i].handler = "proxy_request"}

\* The sessions whose handler has returned.
Returned ==
    {i \in DOMAIN sessions :
        sessions[i].pc \in {"responded", "streaming", "errored", "closed"}}

\* The sessions that left _handle_proxy_request on a failure path.
Failed == {i \in DOMAIN sessions : sessions[i].exit_line \in {130, 185, 193, 201}}

\* C7: every failure of a proxied request ends in exactly one plain-text
\* response made by the handler: 404 "No route found for host" when no
\* target resolves, with no upstream request sent; 502 "Backend service
\* unavailable" on a connect error; 504 "Backend service timeout" on a
\* timeout; 500 "Internal proxy error" on any other exception.  No
\* exception leaves the handler: a session in which one was raised has
\* returned.
C7_FailureResponses ==
    \A i \in Proxied :
        LET s == sessions[i]
        IN  /\ Len(s.responses) = IF i \in Returned THEN 1 ELSE 0
            /\ (s.route_line # 0 /\ s.target_url = <<>>)
                  => /\ s.responses = <<PlainText(404, "No route found for host")>>
                     /\ s.upstream_requests = 0
                     /\ s.exit_line = 130
            /\ s.raised # "" => i \in Returned
            /\ s.raised = "ConnectError"
                  => s.responses = <<PlainText(502, "Backend service unavailable")>>
            /\ s.raised = "TimeoutException"
                  => s.responses = <<PlainText(504, "Backend service timeout")>>
            /\ s.raised \notin {"", "ConnectError", "TimeoutException"}
                  => s.responses = <<PlainText(500, "Internal proxy error")>>
            /\ i \in Failed => s.pc \in {"errored", "closed"}

\* One request fails for want of a target, and is answered 404 with
\* nothing sent upstream, while another fails on a refused connection and
\* is answered 502.
C7_Witness ==
    \E i, j \in Proxied :
        /\ sessions[i].pc = "closed" /\ sessions[j].pc = "closed"
        /\ sessions[i].responses[1].status = 404
        /\ sessions[i].upstream_requests = 0
        /\ sessions[j].raised = "ConnectError"
        /\ sessions[j].responses[1].status = 502
        /\ sessions[j].upstream_requests = 1

\* C8: error_count has grown by exactly one for every request that ended
\* on a failure path (404, 502, 504, 500) and by nothing for a request
\* whose upstream response was returned, whatever the upstream's status.
C8_ErrorCount == error_count = Cardinality(Failed)

\* One request failed, the other got an upstream 502 back: one error counted.
C8_Witness ==
    \E i, j \in Proxied :
        /\ sessions[i].pc = "closed" /\ sessions[j].pc = "closed"
        /\ sessions[i].exit_line = 130
        /\ sessions[j].exit_line = 175
        /\ sessions[j].responses[1].status = 502
        /\ error_count = 1

\* The sessions whose request the middleware has counted.
Counted == {i \in DOMAIN sessions : sessions[i].pc # "received"}

\* C9: request_count is incremented once per inbound request as it enters
\* the middleware, under every interleaving: it equals the number of
\* requests that have entered, hence the number of requests once all are
\* closed.
C9_RequestCount ==
    /\ request_count = Cardinality(Counted)
    /\ (\A i \in DOMAIN sessions : sessions[i].pc = "closed")
          => request_count = Cardinality(DOMAIN sessions)

\* Two requests entered before either was answered, and both are counted.
C9_Witness ==
    /\ Cardinality(DOMAIN sessions) >= 2
    /\ \A i \in DOMAIN sessions : sessions[i].pc = "forwarding"
    /\ request_count = Cardinality(DOMAIN sessions)

\* An HTTP header name without regard to letter case, which is how the
\* upstream reads it.
HeaderName(name) ==
    IF name = "Authorization" THEN "authorization"
    ELSE IF name = "X-Api-Key" THEN "x-api-key"
    ELSE name

\* The headers that are never to be forwarded.
Withheld == {"host", "content-length", "x-rdp-host", "x-host"}

\* The sessions whose request has gone upstream.
Forwarded == {i \in DOMAIN sessions : sessions[i].upstream_requests > 0}

\* The places of the header called name in a list of headers.
Entries(headers, name) ==
    {k \in 1..Len(headers) : HeaderName(headers[k][1]) = name}

\* The header names a session's inbound request and the configuration use.
Names(i) ==
    {HeaderName(sessions[i].req.headers[k][1]) : k \in 1..Len(sessions[i].req.headers)}
    \cup {HeaderName(config.auth_headers[k][1]) : k \in 1..Len(config.auth_headers)}

\* C10: the headers sent upstream are the inbound ones without Host,
\* Content-Length, x-rdp-host and x-host, overlaid with the configured
\* auth headers: a configured header goes upstream once, with the
\* configured value, in place of an inbound header of the same name; any
\* other inbound header goes upstream once, with its inbound value; none
\* of the four withheld headers goes upstream.
C10_UpstreamHeaders ==
    \A i \in Forwarded :
        LET sent == sessions[i].headers
            inbound == sessions[i].req.headers
            auth == config.auth_headers
        IN  /\ \A name \in Names(i) :
                 IF Entries(auth, name) # {}
                 THEN /\ Cardinality(Entries(sent, name)) = 1
                      /\ \A k \in Entries(sent, name) :
                            \E a \in Entries(auth, name) : sent[k][2] = auth[a][2]
                 ELSE IF name \notin Withheld
                 THEN /\ Cardinality(Entries(sent, name)) = 1
                      /\ \A k \in Entries(sent, name) :
                            sent[k][2] = DictGet(inbound, name, <<>>)
                 ELSE Entries(sent, name) = {}
            /\ \A name \in Withheld : Entries(sent, name) = {}

\* The inbound query parameters other than the override key, every value
\* of a repeated key among them, in their order.
WithoutOverride(query) == SelectSeq(query, LAMBDA p : p[1] # "_host")

\* C11: the query parameters sent upstream are exactly the inbound ones
\* with the key _host removed: _host never goes upstream, and every other
\* inbound parameter does, each value of a repeated key included.
C11_UpstreamQuery ==
    \A i \in Forwarded :
        /\ ~HasKey(sessions[i].params, "_host")
        /\ sessions[i].params = WithoutOverride(sessions[i].req.query)

\* The sessions for which the outbound URL has been built.
Addressed == {i \in DOMAIN sessions : sessions[i].target_path # <<>>}

\* A target without the slashes it ends in: its longest prefix that does
\* not end in a slash.
Trimmed(target) ==
    LET keep == {k \in 0..Len(target) : k = 0 \/ target[k] # "/"}
    IN  SubSeq(target, 1, CHOOSE k \in keep : \A m \in keep : m <= k)

\* The path of the inbound request as the caller wrote it: the slash the
\* catch-all route consumes, then the path parameter.
OriginalPath(req) == <<"/">> \o req.path

\* The outbound URL is the trimmed target, a slash, the stripped path; with
\* an empty stripped path it ends in exactly one slash.
UrlBuilt(i) ==
    LET url == sessions[i].target_path
        base == Trimmed(sessions[i].target_url)
    IN  /\ url = base \o <<"/">> \o sessions[i].stripped_path
        /\ sessions[i].stripped_path = <<>> =>
              /\ url = base \o <<"/">>
              /\ Len(url) >= 2 /\ url[Len(url)] = "/" /\ url[Len(url) - 1] # "/"

\* The target the table gives the looked-up host: the route of that key,
\* or the default when no stage matches.
KeyTarget(i) ==
    config.routes[Least(ExactRoutes(sessions[i].lookup_host))].target

\* C12 (as written): the outbound URL is the trimmed target, "/", the
\* stripped path; a host that is a key of the table gives that route's
\* target plus the original path, and an unmatched host gives the default
\* target plus the original path.
C12_OriginalPath ==
    \A i \in Addressed :
        /\ UrlBuilt(i)
        /\ sessions[i].route_line = 82 =>
              sessions[i].target_path =
                  Trimmed(KeyTarget(i)) \o OriginalPath(sessions[i].req)
        /\ sessions[i].route_line = 101 =>
              sessions[i].target_path =
                  Trimmed(config.default) \o OriginalPath(sessions[i].req)

\* A path that begins with one of the two markers.
BeginsWithMarker(path) ==
    \/ StartsWith(path, HostMarker)
    \/ StartsWith(path, AtMarker)

\* C12 (amended): the outbound URL is the trimmed target, "/", the stripped
\* path; a host that is a key of the table gives that route's target plus
\* the stripped path, an unmatched host gives the default target plus the
\* stripped path, and the stripped path is the original path whenever the
\* path begins with no marker.
C12_StrippedPath ==
    \A i \in Addressed :
        /\ UrlBuilt(i)
        /\ sessions[i].route_line = 82 =>
              sessions[i].target_path =
                  Trimmed(KeyTarget(i)) \o <<"/">> \o sessions[i].stripped_path
        /\ sessions[i].route_line = 101 =>
              sessions[i].target_path =
                  Trimmed(config.default) \o <<"/">> \o sessions[i].stripped_path
        /\ ~BeginsWithMarker(sessions[i].req.path) =>
              sessions[i].target_path =
                  Trimmed(sessions[i].target_url) \o OriginalPath(sessions[i].req)

\* A marker names the key whose target ends in a slash and leaves nothing
\* of the path: the URL is that target, once trimmed, and one slash.
C12_Witness ==
    \E i \in Addressed :
        /\ sessions[i].route_line = 82
        /\ sessions[i].target_url = TargetB
        /\ sessions[i].req.path # <<>>
        /\ sessions[i].stripped_path = <<>>
        /\ sessions[i].target_path = <<"http:", "/", "/", "127.0.0.1:3001", "/">>

\* The chunks a session has written to its caller, piece after piece.
RECURSIVE Flatten(_)
Flatten(pieces) ==
    IF pieces = <<>> THEN <<>> ELSE Head(pieces) \o Flatten(Tail(pieces))

ChunksWritten(i) == Flatten(sessions[i].written)

IsPrefix(p, s) == Len(p) <= Len(s) /\ SubSeq(s, 1, Len(p)) = p

\* C13: the upstream body is streamed, never buffered in full: the chunks
\* reach the caller in the order they were read, and when the last chunk
\* of a body of two or more has been read a chunk has already been written
\* to the caller.
C13_StreamedIncrementally ==
    \A i \in Forwarded :
        /\ IsPrefix(ChunksWritten(i), sessions[i].read)
        /\ IsPrefix(sessions[i].read, sessions[i].upstream_body)
        /\ (Len(sessions[i].upstream_body) >= 2
              /\ sessions[i].read = sessions[i].upstream_body)
           => ChunksWritten(i) # <<>>

\* The sessions for which a StreamingResponse was built.
Streamed == {i \in DOMAIN sessions : sessions[i].exit_line = 175}

\* The response a session handed back.
Answer(i) == sessions[i].responses[Len(sessions[i].responses)]

\* The upstream's headers other than Content-Length, each one as sent.
WithoutLength(headers) == SelectSeq(headers, LAMBDA p : p[1] # "content-length")

\* C14: the response carries the upstream's status unchanged and the
\* upstream's headers with only Content-Length removed; a 3xx is returned
\* as it is; every forwarded session made exactly one upstream request.
C14_ResponsePassthrough ==
    /\ \A i \in Streamed :
          /\ Len(sessions[i].responses) = 1
          /\ Answer(i).status = sessions[i].upstream_status
          /\ Answer(i).headers = WithoutLength(sessions[i].upstream_headers)
    /\ \A i \in Forwarded : sessions[i].upstream_requests = 1

\* C15: on every exit of the handler (a response returned, 502, 504, 500,
\* the caller gone before the body was written) the client opened for the
\* request has been closed: only a session that is forwarding holds one.
C15_ClientReleased ==
    \A i \in DOMAIN sessions :
        /\ sessions[i].client_open => sessions[i].pc = "forwarding"
        /\ sessions[i].pc \in {"streaming", "errored", "closed"} =>
              ~sessions[i].client_open

\* The caller went away before the body was written: the session is
\* closed, it made its upstream request, and its client is closed.
C15_Witness ==
    \E i \in Forwarded :
        /\ sessions[i].pc = "closed"
        /\ sessions[i].disconnected
        /\ sessions[i].upstream_body # <<>>
        /\ ChunksWritten(i) = <<>>
        /\ ~sessions[i].client_open

\* The load on record is one of a file without routes.
EmptyRoutesLoaded ==
    /\ last_load.called
    /\ last_load.file.exists
    /\ last_load.file.routes = <<>>

\* A step in which the resolver reads the routing table.
ResolverReads(i) ==
    sessions[i].pc = "dispatch" /\ sessions'[i].pc # "dispatch"

\* C16: a configuration is accepted only with a non-empty routes mapping:
\* loading one without routes fails with a validation error and installs
\* nothing, so the installed configuration, and every routing table the
\* resolver reads, has at least one entry.
C16_RoutesNonEmpty ==
    /\ [](config # NoConfig => Len(config.routes) >= 1)
    /\ [](EmptyRoutesLoaded => last_load.raised = "ValueError")
    /\ [][(last_load' # last_load /\ EmptyRoutesLoaded') => config' = config]_vars
    /\ [][\A i \in DOMAIN sessions :
            ResolverReads(i) => config # NoConfig /\ Len(config.routes) >= 1]_vars

\* A first load of a file without routes has failed and nothing is
\* installed.
C16_Witness ==
    /\ EmptyRoutesLoaded
    /\ last_load.raised = "ValueError"
    /\ config = NoConfig

\* How far along received -> resolved -> forwarding -> {streaming |
\* errored} -> closed a session stands; a request the middleware has
\* counted and handed to the handler is still "received".
Stage(pc) ==
    IF pc \in {"received", "dispatch"} THEN 0
    ELSE IF pc = "resolved" THEN 1
    ELSE IF pc = "forwarding" THEN 2
    ELSE IF pc \in {"streaming", "errored"} THEN 3
    ELSE 4

\* A step of session i goes forward or stays: it does not leave streaming
\* for errored or errored for streaming, and it makes no second upstream
\* request.
Forward(i) ==
    /\ Stage(sessions'[i].pc) >= Stage(sessions[i].pc)
    /\ sessions[i].pc = "streaming" => sessions'[i].pc \in {"streaming", "closed"}
    /\ sessions[i].pc = "errored" => sessions'[i].pc \in {"errored", "closed"}
    /\ sessions[i].pc = "closed" => sessions'[i].pc = "closed"
    /\ sessions'[i].upstream_requests >= sessions[i].upstream_requests
    /\ sessions'[i].upstream_requests <= 1
    /\ sessions'[i].upstream_requests > sessions[i].upstream_requests =>
          sessions[i].pc = "resolved" /\ sessions'[i].pc = "forwarding"

\* C17: a session moves only forward along received -> resolved ->
\* forwarding -> {streaming | errored} -> closed: it never goes back to
\* forwarding, makes at most one upstream request, never passes through
\* both streaming and errored, and, scheduled fairly, ends closed.
C17_ForwardToTerminal ==
    /\ [][\A i \in DOMAIN FairRequests : Forward(i)]_vars
    /\ \A i \in DOMAIN FairRequests : <>(sessions[i].pc = "closed")

\* One session closed after streaming its answer and one closed after an
\* upstream failure, each with its one upstream request.
C17_Witness ==
    \E i, j \in DOMAIN sessions :
        /\ sessions[i].pc = "closed" /\ sessions[j].pc = "closed"
        /\ sessions[i].exit_line = 175 /\ sessions[j].exit_line = 193
        /\ sessions[i].upstream_requests = 1 /\ sessions[j].upstream_requests = 1

\* C18: in every reachable state, under every interleaving of proxied,
\* health and routes requests, 0 <= error_count <= request_count, and no
\* step decreases either counter.
C18_CountersOrdered ==
    /\ [](0 <= error_count /\ error_count <= request_count)
    /\ [][request_count' >= request_count /\ error_count' >= error_count]_vars

\* A health check has been answered and a proxied request has failed,
\* in either order: two requests counted, one error.
C18_Witness ==
    \E i, j \in DOMAIN sessions :
        /\ sessions[i].handler = "health_check" /\ sessions[i].pc = "closed"
        /\ j \in Failed
        /\ error_count = 1
        /\ request_count = 2

=============================================================================
